---- MODULE Spec2Model ----
(***************************************************************************)
(* freddy: a JSON value model, recursive-descent parser and serializer     *)
(* (src/json.hpp).  SpecParse runs the parser and the serializer on input  *)
(* texts, Spec runs a client's value variables over shared wrappers.       *)
(* Characters are one-character strings, texts are                         *)
(* sequences of characters.  NUL is the terminator '\0' that follows the   *)
(* characters of a std::string, EOFCH is char(traits::eof()).              *)
(***************************************************************************)
EXTENDS Integers, Sequences, FiniteSets, TLC

VARIABLES
  text,      \* SpecParse: the input handed to parse()
  phase,     \* SpecParse: which entry points have run on text
  strRes,    \* result of parse(string const&) on text
  stmRes,    \* result of parse(std::basic_istream&) on text
  out,       \* v.json() of the value parse(text) returned
  reRes,     \* result of parse(out)
  handles,   \* Spec: the value variables of the client program
  heap,      \* Spec: the wrappers the values share
  what,      \* Spec: what() of the exception the last call threw, or ""
  alias,     \* Spec: which variables were copied from one another
  impl,      \* which of the repository's implementations is compiled
  host       \* SpecHost: the container variable of the client program

pvars == <<text, phase, strRes, stmRes, out, reRes>>
hvars == <<handles, heap, what, alias>>
vars == <<text, phase, strRes, stmRes, out, reRes, handles, heap, what, alias, impl, host>>

NUL == "NUL"
EOFCH == "EOF"

Max(a, b) == IF a >= b THEN a ELSE b
Min(a, b) == IF a <= b THEN a ELSE b

Digits == {"0", "1", "2", "3", "4", "5", "6", "7", "8", "9"}

DigitVal(c) ==
  CASE c = "0" -> 0 [] c = "1" -> 1 [] c = "2" -> 2 [] c = "3" -> 3
    [] c = "4" -> 4 [] c = "5" -> 5 [] c = "6" -> 6 [] c = "7" -> 7
    [] c = "8" -> 8 [] c = "9" -> 9

DigitChar(d) ==
  CASE d = 0 -> "0" [] d = 1 -> "1" [] d = 2 -> "2" [] d = 3 -> "3"
    [] d = 4 -> "4" [] d = 5 -> "5" [] d = 6 -> "6" [] d = 7 -> "7"
    [] d = 8 -> "8" [] d = 9 -> "9"

\* the character codes std::map<string, value> orders its keys by
Code(c) ==
  CASE c = NUL -> 0 [] c = "\t" -> 9 [] c = "\n" -> 10 [] c = "\r" -> 13
    [] c = " " -> 32 [] c = "\"" -> 34 [] c = "+" -> 43 [] c = "," -> 44
    [] c = "-" -> 45 [] c = "." -> 46 [] c \in Digits -> 48 + DigitVal(c)
    [] c = ":" -> 58 [] c = "E" -> 69 [] c = "[" -> 91 [] c = "\\" -> 92
    [] c = "]" -> 93 [] c = "a" -> 97 [] c = "b" -> 98 [] c = "e" -> 101
    [] c = "f" -> 102 [] c = "l" -> 108 [] c = "n" -> 110 [] c = "r" -> 114
    [] c = "s" -> 115 [] c = "t" -> 116 [] c = "u" -> 117 [] c = "x" -> 120
    [] c = "{" -> 123 [] c = "}" -> 125 [] c = EOFCH -> 255

(***************************************************************************)
(* Cursors.  A string cursor (std::string::const_iterator) is the 0-based  *)
(* index pos into s; s.end() is pos = Len(s), where the buffer holds NUL.  *)
(* A stream cursor (detail::iterator) holds the characters of the stream   *)
(* in s, the number pos of characters extracted so far, the member cur_val *)
(* and the stream's eofbit and failbit.  hi is the highest index of s that *)
(* has been dereferenced (-1: none), ahead the largest distance from the   *)
(* cursor at which a character was looked at.                              *)
(***************************************************************************)
StringBegin(s) ==
  [k |-> "str", s |-> s, pos |-> 0, cur_val |-> NUL,
   eofbit |-> FALSE, failbit |-> FALSE, hi |-> -1, ahead |-> 0]

good(it) == ~it.eofbit /\ ~it.failbit

\* detail::iterator's constructor: cur_val(is.get())
StreamBegin(s) ==
  IF Len(s) > 0
  THEN [k |-> "stm", s |-> s, pos |-> 1, cur_val |-> s[1],
        eofbit |-> FALSE, failbit |-> FALSE, hi |-> -1, ahead |-> 0]
  ELSE [k |-> "stm", s |-> s, pos |-> 0, cur_val |-> EOFCH,
        eofbit |-> TRUE, failbit |-> TRUE, hi |-> -1, ahead |-> 0]

\* operator*: the character under the cursor
Deref(it) ==
  IF it.k = "str"
  THEN IF it.pos < Len(it.s) THEN it.s[it.pos + 1] ELSE NUL
  ELSE it.cur_val

\* the read operator* makes, recorded in hi
Touch(it) ==
  IF it.k = "str" THEN [it EXCEPT !.hi = Max(it.hi, it.pos)] ELSE it

\* operator++: the string cursor steps; the stream cursor calls
\* istream.get(cur_val), which leaves cur_val alone when it extracts nothing
Inc(it) ==
  IF it.k = "str" THEN [it EXCEPT !.pos = it.pos + 1]
  ELSE IF ~good(it) THEN [it EXCEPT !.failbit = TRUE]
  ELSE IF it.pos < Len(it.s)
       THEN [it EXCEPT !.pos = it.pos + 1, !.cur_val = it.s[it.pos + 1]]
       ELSE [it EXCEPT !.eofbit = TRUE, !.failbit = TRUE]

\* cur != end: a comparison of positions for the string cursor,
\* istream.good() for the stream cursor
NotEnd(it) ==
  IF it.k = "str" THEN it.pos # Len(it.s) ELSE good(it)

\* *(cur + 1): the character after the cursor; the stream cursor ignores
\* the offset and calls istream.peek(), which sets eofbit at end of stream
PeekChar(it) ==
  IF it.k = "str"
  THEN IF it.pos + 1 < Len(it.s) THEN it.s[it.pos + 2] ELSE NUL
  ELSE IF good(it) /\ it.pos < Len(it.s) THEN it.s[it.pos + 1] ELSE EOFCH

\* a look ahead that extracts the character from the stream
PeekIt_Extracting(it) ==
  IF it.k = "str" THEN [it EXCEPT !.hi = Max(it.hi, it.pos + 1), !.ahead = 1]
  ELSE IF ~good(it) THEN [it EXCEPT !.failbit = TRUE]
  ELSE IF it.pos < Len(it.s) THEN [it EXCEPT !.pos = it.pos + 1, !.ahead = 1]
  ELSE [it EXCEPT !.eofbit = TRUE, !.ahead = 1]

\* a look at *(cur + 2)
PeekIt_TwoAhead(it) ==
  IF it.k = "str" THEN [it EXCEPT !.hi = Max(it.hi, it.pos + 2), !.ahead = 2]
  ELSE IF ~good(it) THEN [it EXCEPT !.failbit = TRUE]
  ELSE IF it.pos < Len(it.s) THEN [it EXCEPT !.ahead = 1]
  ELSE [it EXCEPT !.eofbit = TRUE, !.ahead = 1]

\* the state of the cursor after *(cur + 1)
PeekIt(it) ==
  IF it.k = "str" THEN [it EXCEPT !.hi = Max(it.hi, it.pos + 1), !.ahead = 1]
  ELSE IF ~good(it) THEN [it EXCEPT !.failbit = TRUE]
  ELSE IF it.pos < Len(it.s) THEN [it EXCEPT !.ahead = 1]
  ELSE [it EXCEPT !.eofbit = TRUE, !.ahead = 1]

(***************************************************************************)
(* Numbers.  json::number is a double; the model keeps the decimal value   *)
(* m * 10^e with sign neg, normalised so that m has no trailing zero and   *)
(* zero is m = 0, e = 0.  Every text below has at most 15 significant      *)
(* digits, for which distinct decimals are distinct doubles.               *)
(***************************************************************************)
RECURSIVE Pow10(_)
Pow10(n) == IF n <= 0 THEN 1 ELSE 10 * Pow10(n - 1)

RECURSIVE NumDigits(_)
NumDigits(m) == IF m < 10 THEN 1 ELSE 1 + NumDigits(m \div 10)

RECURSIVE DigitsOf(_)
DigitsOf(m) ==
  IF m < 10 THEN <<DigitChar(m)>>
  ELSE Append(DigitsOf(m \div 10), DigitChar(m % 10))

RECURSIVE Zeros(_)
Zeros(n) == IF n <= 0 THEN <<>> ELSE <<"0">> \o Zeros(n - 1)

RECURSIVE Norm(_, _, _)
Norm(neg, m, e) ==
  IF m = 0 THEN [neg |-> neg, m |-> 0, e |-> 0]
  ELSE IF m % 10 = 0 THEN Norm(neg, m \div 10, e + 1)
  ELSE [neg |-> neg, m |-> m, e |-> e]

\* double(int) as number_wrapper(int) stores it
NumOfInt(n) == IF n < 0 THEN Norm(TRUE, -n, 0) ELSE Norm(FALSE, n, 0)

\* operator== of two doubles (-0 equals 0)
NumEq(a, b) == (a.m = 0 /\ b.m = 0) \/ a = b

\* index after the run of digits of tok that starts at i
RECURSIVE DigitsRun(_, _)
DigitsRun(tok, i) ==
  IF i <= Len(tok) /\ tok[i] \in Digits THEN DigitsRun(tok, i + 1) ELSE i

\* the number the digits tok[i..j-1] spell, after the digits acc
RECURSIVE NatOf(_, _, _, _)
NatOf(tok, i, j, acc) ==
  IF i >= j THEN acc ELSE NatOf(tok, i + 1, j, 10 * acc + DigitVal(tok[i]))

\* io >> d: num_get collects the longest prefix of the shape
\* [sign] digits [. digits] [e [sign] digits] and converts it; when the
\* collected characters are not a complete number d is set to 0
ToDouble(tok) ==
  LET n  == Len(tok)
      i1 == IF n >= 1 /\ tok[1] \in {"+", "-"} THEN 2 ELSE 1
      i2 == DigitsRun(tok, i1)
      hasDot == i2 <= n /\ tok[i2] = "."
      i3 == IF hasDot THEN i2 + 1 ELSE i2
      i4 == IF hasDot THEN DigitsRun(tok, i3) ELSE i2
      mant == (i2 - i1) + (i4 - i3)
      hasE == mant > 0 /\ i4 <= n /\ tok[i4] \in {"e", "E"}
      i5 == IF hasE THEN i4 + 1 ELSE i4
      hasS == hasE /\ i5 <= n /\ tok[i5] \in {"+", "-"}
      i6 == IF hasS THEN i5 + 1 ELSE i5
      i7 == IF hasE THEN DigitsRun(tok, i6) ELSE i4
      valid == mant > 0 /\ (hasE => i7 > i6)
      neg == n >= 1 /\ tok[1] = "-"
      M == NatOf(tok, i3, i4, NatOf(tok, i1, i2, 0))
      X == IF hasE THEN NatOf(tok, i6, i7, 0) ELSE 0
      E == (IF hasS /\ tok[i5] = "-" THEN -X ELSE X) - (i4 - i3)
  IN IF valid THEN Norm(neg, M, E) ELSE Norm(FALSE, 0, 0)

\* the stream's default precision
Precision == 6

\* ss << *_value: the %g conversion with Precision significant digits:
\* round half-even, drop trailing zeros, scientific notation when the
\* decimal exponent is below -4 or not below Precision
FormatG(x) ==
  LET k == NumDigits(x.m)
      cut == k - Precision
      q == x.m \div Pow10(cut)
      r == x.m % Pow10(cut)
      half == 5 * Pow10(cut - 1)
      up == r > half \/ (r = half /\ q % 2 = 1)
      y == IF cut <= 0 THEN x ELSE Norm(x.neg, IF up THEN q + 1 ELSE q, x.e + cut)
      ds == DigitsOf(y.m)
      kk == Len(ds)
      X == kk - 1 + y.e
      sign == IF x.neg THEN <<"-">> ELSE <<>>
      ax == IF X < 0 THEN -X ELSE X
      ex == <<"e", IF X < 0 THEN "-" ELSE "+">>
              \o (IF ax < 10 THEN <<"0">> ELSE <<>>) \o DigitsOf(ax)
  IN IF x.m = 0 THEN sign \o <<"0">>
     ELSE IF X < -4 \/ X >= Precision
       THEN sign \o <<ds[1]>>
              \o (IF kk > 1 THEN <<".">> \o SubSeq(ds, 2, kk) ELSE <<>>) \o ex
     ELSE IF y.e >= 0 THEN sign \o ds \o Zeros(y.e)
     ELSE IF X >= 0
       THEN sign \o SubSeq(ds, 1, X + 1) \o <<".">> \o SubSeq(ds, X + 2, kk)
     ELSE sign \o <<"0", ".">> \o Zeros(-X - 1) \o ds


(***************************************************************************)
(* Values as the parser builds them: a tree, every node a fresh wrapper.   *)
(* An array is a sequence of values, an object a function from its keys    *)
(* to values (std::map keeps one entry per key).                           *)
(***************************************************************************)
Null == [t |-> "null"]
Bool(b) == [t |-> "bool", v |-> b]
Number(x) == [t |-> "number", v |-> x]
String(x) == [t |-> "string", v |-> x]
Array(x) == [t |-> "array", v |-> x]
Object(x) == [t |-> "object", v |-> x]

EmptyObject == [k \in {} |-> Null]

RECURSIVE ValEq(_, _)
ValEq(a, b) ==
  /\ a.t = b.t
  /\ CASE a.t = "null" -> TRUE
       [] a.t = "bool" -> a.v = b.v
       [] a.t = "number" -> NumEq(a.v, b.v)
       [] a.t = "string" -> a.v = b.v
       [] a.t = "array" ->
            /\ Len(a.v) = Len(b.v)
            /\ \A i \in 1..Len(a.v) : ValEq(a.v[i], b.v[i])
       [] a.t = "object" ->
            /\ DOMAIN a.v = DOMAIN b.v
            /\ \A k \in DOMAIN a.v : ValEq(a.v[k], b.v[k])

\* an escape that knows the quote only
RECURSIVE escape_QuoteOnly(_)
escape_QuoteOnly(value) ==
  IF value = <<>> THEN <<>>
  ELSE (IF Head(value) = "\"" THEN <<"\\", Head(value)>> ELSE <<Head(value)>>)
         \o escape_QuoteOnly(Tail(value))

RECURSIVE escape(_)
escape(value) ==
  IF value = <<>> THEN <<>>
  ELSE LET c == Head(value)
       IN (IF c = "\"" \/ c = "\\" THEN <<"\\", c>> ELSE <<c>>)
            \o escape(Tail(value))

\* the for loop of unescape from one test of *c != '\0' on: data is
\* value.data(), the characters of value and the terminator after them; c
\* is the index of the pointer, ss what was written, hi the highest index
\* read.  A read after the terminator is outside the string's storage.
RECURSIVE unescape_loop(_, _, _, _)
unescape_loop(data, c, ss, hi) ==
  IF c > Len(data) THEN [st |-> "ub", val |-> ss, hi |-> Max(hi, c)]
  ELSE IF data[c] = NUL THEN [st |-> "ok", val |-> ss, hi |-> Max(hi, c)]
  ELSE IF data[c] = "\\"
    THEN IF c + 1 > Len(data) THEN [st |-> "ub", val |-> ss, hi |-> c + 1]
         ELSE unescape_loop(data, c + 2, Append(ss, data[c + 1]), Max(hi, c + 1))
  ELSE unescape_loop(data, c + 1, Append(ss, data[c]), Max(hi, c))

\* unescape(string const& value)
unescape(value) == unescape_loop(Append(value, NUL), 1, <<>>, 0)

\* operator< of std::string, the order std::map iterates in
RECURSIVE StrLess(_, _)
StrLess(a, b) ==
  IF b = <<>> THEN FALSE
  ELSE IF a = <<>> THEN TRUE
  ELSE IF Head(a) # Head(b) THEN Code(Head(a)) < Code(Head(b))
  ELSE StrLess(Tail(a), Tail(b))

\* the keys from the greatest down
RECURSIVE SortedKeys_Descending(_)
SortedKeys_Descending(S) ==
  IF S = {} THEN <<>>
  ELSE LET m == CHOOSE x \in S : \A y \in S \ {x} : StrLess(y, x)
       IN <<m>> \o SortedKeys_Descending(S \ {m})

RECURSIVE SortedKeys(_)
SortedKeys(S) ==
  IF S = {} THEN <<>>
  ELSE LET m == CHOOSE x \in S : \A y \in S \ {x} : StrLess(x, y)
       IN <<m>> \o SortedKeys(S \ {m})

bool_branch(b) == IF b THEN <<"t", "r", "u", "e">> ELSE <<"f", "a", "l", "s", "e">>
comma_branch(b) == IF b THEN <<",", " ">> ELSE <<>>

RECURSIVE json(_), array_out(_, _), object_out(_, _, _)

\* operator<<(std::ostream&, array const&), from element count on
array_out(v, count) ==
  IF count > Len(v) THEN <<>>
  ELSE json(v[count]) \o comma_branch(count < Len(v)) \o array_out(v, count + 1)

\* operator<<(std::ostream&, object const&), from entry count on
object_out(v, keys, count) ==
  IF count > Len(keys) THEN <<>>
  ELSE <<"\"">> \o escape(keys[count]) \o <<"\"", ":", " ">>
         \o json(v[keys[count]]) \o comma_branch(count < Len(keys))
         \o object_out(v, keys, count + 1)

\* value::json(): the wrapper's json()
json(x) ==
  CASE x.t = "null" -> <<"n", "u", "l", "l">>
    [] x.t = "bool" -> bool_branch(x.v)
    [] x.t = "number" -> FormatG(x.v)
    [] x.t = "string" -> <<"\"">> \o escape(x.v) \o <<"\"">>
    [] x.t = "array" -> <<"[">> \o array_out(x.v, 1) \o <<"]">>
    [] x.t = "object" ->
         <<"{">> \o object_out(x.v, SortedKeys(DOMAIN x.v), 1) \o <<"}">>

(***************************************************************************)
(* The parser.  Every production takes the cursor and returns the outcome  *)
(* with the cursor as the production left it: st = "ok" with the value,    *)
(* st = "err" with the message of the exception thrown, st = "ovf" when    *)
(* the nesting of detail::parse calls exceeds the stack (MaxDepth frames), *)
(* st = "ub" when a string cursor has moved past s.end().                  *)
(***************************************************************************)
MaxDepth == 6

Ok(val, it) == [st |-> "ok", msg |-> "", val |-> val, it |-> it]
Err(msg, it) == [st |-> "err", msg |-> msg, val |-> Null, it |-> it]
Ovf(it) == [st |-> "ovf", msg |-> "", val |-> Null, it |-> it]
Ub(it) == [st |-> "ub", msg |-> "", val |-> Null, it |-> it]

Overrun(it) == it.k = "str" /\ it.pos > Len(it.s)

\* a whitespace test without the carriage return
is_whitespace_NoCR(c) == c = " " \/ c = "\n" \/ c = "\t"

is_whitespace(c) == c = " " \/ c = "\r" \/ c = "\n" \/ c = "\t"

\* the characters parse_number keeps consuming
IsNumChar(c) == c \in Digits \/ c \in {"-", ".", "e", "E", "+"}

\* ']' ends the array wherever it stands
ArrayCloses_AnyBracket(c, has_elements, accept) == c = "]"

\* a ']' that closes only after an element
ArrayCloses_AfterElement(c, has_elements, accept) ==
  c = "]" /\ has_elements /\ ~accept

\* parse_array: ']' ends the array when no element was read yet or when the
\* last token was an element (has_elements ^ accept)
ArrayCloses(c, has_elements, accept) == c = "]" /\ (has_elements # accept)

\* parse_object: '}' ends the object whenever no key is pending
ObjectCloses(c, got_key) == c = "}" /\ ~got_key

\* parse_object: a ',' is skipped whenever an element was read and no key
\* is pending
ObjectComma(c, got_key, got_elements) == got_elements /\ ~got_key /\ c = ","

\* the one element of a singleton set.  A recursive result is bound as
\* x \in {result} before it is used, so that it is computed once.
Only(S) == CHOOSE x \in S : TRUE

RECURSIVE detail_parse(_, _), parse_array(_, _, _, _, _), parse_number(_, _),
          parse_string(_, _, _), parse_object(_, _, _, _, _, _),
          match_literal(_, _)

\* an array loop that returns what it has at the end of the input
array_step_AcceptEnd(it, rv, accept, has_elements, d) ==
  Only({IF NotEnd(j) THEN parse_array(j, rv, accept, has_elements, d)
        ELSE Ok(rv, j) : j \in {Inc(it)}})

\* while(++cur != end) of parse_array, then the next iteration
array_step(it, rv, accept, has_elements, d) ==
  Only({IF NotEnd(j) THEN parse_array(j, rv, accept, has_elements, d)
        ELSE Err("bad array", j) : j \in {Inc(it)}})

\* the do-while loop of parse_array from one iteration on
parse_array(cur, rv, accept, has_elements, d) ==
  IF Overrun(cur) THEN Ub(cur) ELSE
  Only({
    IF is_whitespace(Deref(it)) THEN array_step(it, rv, accept, has_elements, d)
    ELSE IF ArrayCloses(Deref(it), has_elements, accept) THEN Ok(rv, it)
    ELSE IF accept
      THEN Only({IF r.st # "ok" THEN r
                 ELSE array_step(r.it, Append(rv, r.val), FALSE, TRUE, d)
                   : r \in {detail_parse(it, d + 1)}})
    ELSE IF Deref(it) = "," THEN array_step(it, rv, TRUE, has_elements, d)
    ELSE Err("bad array", it)
      : it \in {Touch(cur)}})

\* the do-while loop of parse_number from one iteration on; io holds the
\* characters written to the stringstream
parse_number(cur, io) ==
  IF Overrun(cur) THEN Ub(cur) ELSE
  Only({
    IF ~IsNumChar(x.next) THEN Ok(Number(ToDouble(x.io)), x.it1)
    ELSE Only({IF NotEnd(j) THEN parse_number(j, x.io)
               ELSE Ok(Number(ToDouble(x.io)), j) : j \in {Inc(x.it1)}})
      : x \in {[io |-> Append(io, Deref(Touch(cur))),
                next |-> PeekChar(Touch(cur)), it1 |-> PeekIt(Touch(cur))]}})

\* a string production that returns with the cursor after the closing '"'
parse_string_PastQuote(cur, esc, rv) ==
  IF Overrun(cur) THEN Ub(cur)
  ELSE IF ~NotEnd(cur) THEN Err("bad string", cur)
  ELSE Only({
    IF Deref(it) = "\"" /\ ~esc THEN Ok(rv, Inc(it))
    ELSE IF Deref(it) = "\\" /\ ~esc THEN parse_string(Inc(it), TRUE, rv)
    ELSE parse_string(Inc(it), FALSE, Append(rv, Deref(it)))
      : it \in {Touch(cur)}})

\* a string production that keeps the escaping backslash
parse_string_KeepSlash(cur, esc, rv) ==
  IF Overrun(cur) THEN Ub(cur)
  ELSE IF ~NotEnd(cur) THEN Err("bad string", cur)
  ELSE Only({
    IF Deref(it) = "\"" /\ ~esc THEN Ok(rv, it)
    ELSE IF Deref(it) = "\\" /\ ~esc
      THEN parse_string(Inc(it), TRUE, Append(rv, Deref(it)))
    ELSE parse_string(Inc(it), FALSE, Append(rv, Deref(it)))
      : it \in {Touch(cur)}})

\* the for loop of parse_string from one test of cur != end on
parse_string(cur, esc, rv) ==
  IF Overrun(cur) THEN Ub(cur)
  ELSE IF ~NotEnd(cur) THEN Err("bad string", cur)
  ELSE Only({
    IF Deref(it) = "\"" /\ ~esc THEN Ok(rv, it)
    ELSE IF Deref(it) = "\\" /\ ~esc THEN parse_string(Inc(it), TRUE, rv)
    ELSE parse_string(Inc(it), FALSE, Append(rv, Deref(it)))
      : it \in {Touch(cur)}})

\* while(++cur != end) of parse_object, then the next iteration
object_step(it, rv, key, got_key, got_elements, d) ==
  Only({IF NotEnd(j) THEN parse_object(j, rv, key, got_key, got_elements, d)
        ELSE Err("bad object", j) : j \in {Inc(it)}})

\* the do-while loop of parse_object from one iteration on
parse_object(cur, rv, key, got_key, got_elements, d) ==
  IF Overrun(cur) THEN Ub(cur) ELSE
  Only({
    IF ObjectCloses(Deref(it), got_key) THEN Ok(rv, it)
    ELSE IF is_whitespace(Deref(it))
      THEN object_step(it, rv, key, got_key, got_elements, d)
    ELSE IF Deref(it) = "\""
      THEN Only({IF k.st # "ok" THEN k
                 ELSE object_step(k.it, rv, k.val, TRUE, got_elements, d)
                   : k \in {parse_string(Inc(it), FALSE, <<>>)}})
    ELSE IF got_key /\ Deref(it) = ":"
      THEN Only({IF r.st # "ok" THEN r
                 ELSE object_step(r.it, (key :> r.val) @@ rv, key, FALSE, TRUE, d)
                   : r \in {detail_parse(Inc(it), d + 1)}})
    ELSE IF ObjectComma(Deref(it), got_key, got_elements)
      THEN object_step(it, rv, key, got_key, got_elements, d)
    ELSE Err("bad object", it)
      : it \in {Touch(cur)}})

\* *++cur == lit[1] && *++cur == lit[2] && ...: the cursor after the last
\* comparison made, and whether all of them held
match_literal(cur, lit) ==
  IF lit = <<>> THEN [matched |-> TRUE, it |-> cur]
  ELSE Only({IF Overrun(it) THEN [matched |-> FALSE, it |-> it]
             ELSE IF Deref(it) = Head(lit) THEN match_literal(it, Tail(lit))
             ELSE [matched |-> FALSE, it |-> it]
               : it \in {Touch(Inc(cur))}})

\* a literal case of detail::parse: the value when the rest of the literal
\* matches, the exception when it does not
literal(it, rest, val, msg) ==
  Only({IF m.matched THEN Ok(val, m.it) ELSE Err(msg, m.it)
          : m \in {match_literal(it, rest)}})

\* the implicit conversion of a production's result to value
string_value(r) == IF r.st = "ok" THEN Ok(String(r.val), r.it) ELSE r
array_value(r) == IF r.st = "ok" THEN Ok(Array(r.val), r.it) ELSE r
object_value(r) == IF r.st = "ok" THEN Ok(Object(r.val), r.it) ELSE r

\* detail::parse, the d-th nested call of it
detail_parse(cur, d) ==
  IF d > MaxDepth THEN Ovf(cur)
  ELSE IF Overrun(cur) THEN Ub(cur)
  ELSE Only({
    CASE Deref(it) = "\"" ->
                Only({string_value(r) : r \in {parse_string(Inc(it), FALSE, <<>>)}})
           [] Deref(it) = "[" ->
                Only({array_value(r)
                        : r \in {parse_array(Inc(it), <<>>, TRUE, FALSE, d)}})
           [] Deref(it) = "{" ->
                Only({object_value(r)
                        : r \in {parse_object(Inc(it), EmptyObject, <<>>, FALSE, FALSE, d)}})
           [] Deref(it) \in Digits \/ Deref(it) = "-" -> parse_number(it, <<>>)
           [] Deref(it) = "n" -> literal(it, <<"u", "l", "l">>, Null, "bad json: null")
           [] Deref(it) = "t" -> literal(it, <<"r", "u", "e">>, Bool(TRUE), "bad json: ")
           [] Deref(it) = "f" ->
                literal(it, <<"a", "l", "s", "e">>, Bool(FALSE), "bad json: false")
           [] is_whitespace(Deref(it)) ->
                Only({IF NotEnd(j) THEN detail_parse(j, d) ELSE Err("bad json", j)
                        : j \in {Inc(it)}})
           [] OTHER -> Err("bad json", it)
      : it \in {Touch(cur)}})

\* the index of the character the cursor rests on
CursorIndex(it) == IF it.k = "str" THEN it.pos ELSE it.pos - 1

\* no look at what follows the value
trailing_Unchecked(i, v) == Ok(v, i)

\* the loop after detail::parse in both entry points:
\* while(++i != e) if(!is_whitespace(*i)) throw "garbage at end of input"
RECURSIVE trailing(_, _)
trailing(i, v) ==
  Only({IF Overrun(j) THEN Ub(j)
        ELSE IF ~NotEnd(j) THEN Ok(v, j)
        ELSE IF ~is_whitespace(Deref(j)) THEN Err("garbage at end of input", Touch(j))
        ELSE trailing(Touch(j), v)
          : j \in {Inc(i)}})

\* an entry point's outcome: that of detail::parse followed by the trailing
\* loop; vend is the index the cursor rested on when detail::parse returned
\* a value (-1 when it threw)
Entry(begin) ==
  Only({IF r.st # "ok" THEN [r EXCEPT !.it = r.it] @@ [vend |-> -1]
        ELSE trailing(r.it, r.val) @@ [vend |-> CursorIndex(r.it)]
          : r \in {detail_parse(begin, 1)}})

\* parse(string const& s)
parse(s) == Entry(StringBegin(s))

\* parse(std::basic_istream<T>& istream), the stream holding s
parse_istream(s) == Entry(StreamBegin(s))


(***************************************************************************)
(* The inputs parse is run on.                                             *)
(***************************************************************************)
MaxElems == 2     \* elements of a well-formed array, pairs of an object
MaxItems == 4     \* items between the brackets of a token-built text
MaxTok == 3       \* tokens of a free token sequence

Q == "\""
BS == "\\"

\* well-formed scalars
Atoms ==
  { <<"n", "u", "l", "l">>, <<"t", "r", "u", "e">>, <<"f", "a", "l", "s", "e">>,
    <<"1">>, <<"-", "1", "2">>, <<"1", ".", "5">>, <<"2", "e", "2">>,
    <<"1", "2", "3", "4", "5", "6", "7">>,
    <<Q, Q>>, <<Q, "a", Q>>, <<Q, BS, Q, Q>>, <<Q, "b", BS, BS, Q>>,
    <<Q, BS, "n", Q>> }

\* the scalars used inside containers
Leaves == { <<"n", "u", "l", "l">>, <<"1">>, <<Q, "a", Q>>, <<Q, BS, Q, Q>> }

Keys == { <<Q, "a", Q>>, <<Q, "b", Q>> }

Seps == { <<",">>, <<",", " ">> }

RECURSIVE Lists(_, _, _)
\* the texts of at most n items of E, consecutive items joined by a
\* separator of S
Lists(E, S, n) ==
  IF n <= 1 THEN E
  ELSE LET L == Lists(E, S, n - 1)
       IN L \cup {l \o sp \o x : l \in L, sp \in S, x \in E}

ArraysOf(E) ==
  {<<"[", "]">>} \cup {<<"[">> \o l \o <<"]">> : l \in Lists(E, Seps, MaxElems)}

PairsOf(E) == {k \o <<":">> \o x : k \in Keys, x \in E}

ObjectsOf(E) ==
  {<<"{", "}">>}
    \cup {<<"{">> \o l \o <<"}">> : l \in Lists(PairsOf(E), {<<",">>}, MaxElems)}

Flat == ArraysOf(Leaves) \cup ObjectsOf({<<"1">>, <<Q, "a", Q>>, <<"t", "r", "u", "e">>})

Nested ==
  {<<"[">> \o x \o <<"]">> : x \in Flat}
    \cup {<<"[", "1", ",">> \o x \o <<"]">> : x \in Flat}
    \cup {<<"{", Q, BS, Q, Q, ":", " ">> \o x \o <<"}">> : x \in Flat}

\* texts of the JSON grammar, with whitespace around them
WellFormed ==
  Atoms \cup Flat \cup Nested
    \cup {<<" ">> \o x \o <<" ", "\n">> : x \in Atoms \cup ArraysOf({<<"1">>})}

\* every text cut short
Prefixes(S) == UNION {{SubSeq(x, 1, n) : n \in 0..Len(x)} : x \in S}

RECURSIVE TokTexts(_, _)
\* the concatenations of at most n tokens of T
TokTexts(T, n) ==
  IF n = 0 THEN {<<>>}
  ELSE LET P == TokTexts(T, n - 1) IN P \cup {p \o x : p \in P, x \in T}

FreeTok ==
  { <<"[">>, <<"]">>, <<"{">>, <<"}">>, <<",">>, <<":">>, <<" ">>, <<"1">>,
    <<Q>>, <<"x">> }

ArrayTok == { <<"1">>, <<",">>, <<" ">>, <<"[", "]">> }

ObjectTok ==
  { <<Q, "a", Q, ":", "1">>, <<Q, "b", Q, ":", "2">>, <<Q, "a", Q>>,
    <<",">>, <<" ">> }

MaxStr == 3       \* characters of a string handed to escape

Alphabet == {Q, BS, "a", "n"}

Strings == UNION {[1..n -> Alphabet] : n \in 0..MaxStr}

\* the JSON text of the string str, and str itself between quotes
QuotedOf == [str \in Strings |-> <<Q>> \o escape(str) \o <<Q>>]
Quoted == {QuotedOf[str] : str \in Strings} \cup {<<Q>> \o str \o <<Q>> : str \in Strings}

\* the tokens of {"a":[1,true]} and the texts made of them with gaps
\* filled in: f[0] before the first token, f[i] after the i-th
SpaceTokens ==
  << <<"{">>, <<Q, "a", Q>>, <<":">>, <<"[">>, <<"1">>, <<",">>,
     <<"t", "r", "u", "e">>, <<"]">>, <<"}">> >>

RECURSIVE Interleave(_, _, _)
Interleave(tk, f, i) ==
  IF i > Len(tk) THEN <<>> ELSE tk[i] \o f[i] \o Interleave(tk, f, i + 1)

Gapped ==
  {f[0] \o Interleave(SpaceTokens, f, 1)
     : f \in [0..Len(SpaceTokens) -> {<<>>, <<" ">>}]}
    \cup {f[0] \o Interleave(SpaceTokens, f, 1)
            : f \in {[g \in 0..Len(SpaceTokens) |-> IF g = k THEN w ELSE <<>>]
                       : k \in 0..Len(SpaceTokens),
                         w \in {<<"\t">>, <<"\r">>, <<"\n">>, <<" ", "\n", "\t">>}}}

Texts ==
  WellFormed
    \cup Gapped
    \cup Quoted
    \cup Prefixes(Atoms \cup ArraysOf({<<"1">>}) \cup ObjectsOf({<<"1">>}))
    \cup {x \o g : x \in {<<"t", "r", "u", "e">>, <<"[", "]">>, <<"1">>},
                   g \in {<<"x">>, <<" ", "x">>, <<" ", "2">>, <<"\t", "\r">>}}
    \cup TokTexts(FreeTok, MaxTok)
    \cup {<<"[">> \o x \o <<"]">> : x \in TokTexts(ArrayTok, MaxItems)}
    \cup {<<"{">> \o x \o <<"}">> : x \in TokTexts(ObjectTok, MaxItems)}

(***************************************************************************)
(* Spec: the value variables of a client program.  A value is a            *)
(* shared_ptr<detail::value_t> _value and a ValueType _type.  The wrappers *)
(* with a mutable accessor (number, string, array, object) live in heap    *)
(* cells that values refer to by address; a null_wrapper and a             *)
(* bool_wrapper, which class value never hands out by reference, are held  *)
(* by content.  A cell is freed when its last shared_ptr goes away.        *)
(***************************************************************************)
Handle == {"a", "b"}

MaxCells == 1     \* wrappers allocated at a time
MaxArr == 1       \* elements of an array

Addr == 1..MaxCells

JSON_ARRAY == "JSON_ARRAY"
JSON_BOOL == "JSON_BOOL"
JSON_NULL == "JSON_NULL"
JSON_NUMBER == "JSON_NUMBER"
JSON_OBJECT == "JSON_OBJECT"
JSON_STRING == "JSON_STRING"

Free == [w |-> "free"]
null_wrapper == [w |-> "null_wrapper"]
bool_wrapper(v) == [w |-> "bool_wrapper", _value |-> v]
number_wrapper(v) == [w |-> "number_wrapper", _value |-> v]
string_wrapper(v) == [w |-> "string_wrapper", _value |-> v]
array_wrapper(v) == [w |-> "array_wrapper", _value |-> v]
object_wrapper(v) == [w |-> "object_wrapper", _value |-> v]

\* the two kinds of shared_ptr
Held(w) == [k |-> "held", w |-> w]
Ref(n) == [k |-> "ref", addr |-> n]

\* a shared_ptr that owns nothing
Empty == [k |-> "empty"]

\* a _type no constructor wrote
Indeterminate == "indeterminate"

\* the implementations: the header json.hpp, the translation unit json.cpp
\* and the older header
Impl == {"json.hpp", "json.cpp", "older header"}

\* value(), value(bool x)
value_null == [_value |-> Held(null_wrapper), _type |-> JSON_NULL]

\* what value() of implementation i can leave behind: json.hpp a
\* null_wrapper, json.cpp a null pointer, the older header an empty pointer
\* and a tag that was never written
DefaultValues(i) ==
  CASE i = "json.hpp" -> {value_null}
    [] i = "json.cpp" -> {[_value |-> Empty, _type |-> JSON_NULL]}
    [] i = "older header" -> {[_value |-> Empty, _type |-> Indeterminate]}

\* what detail::parse of implementation i returns for null: value() in
\* json.hpp and json.cpp, value(null) in the older header
ParsedNull(i) ==
  IF i = "json.cpp" THEN [_value |-> Empty, _type |-> JSON_NULL] ELSE value_null
value_bool(x) == [_value |-> Held(bool_wrapper(x)), _type |-> JSON_BOOL]

\* value(value const& v)
value_copy(v) == [_value |-> v._value, _type |-> v._type]

\* an assignment that leaves out _type = v._type
assign_KeepType(dst, src) == [_value |-> src._value, _type |-> dst._type]

\* an assignment that leaves out _value = v._value
assign_KeepStorage(dst, src) == [_value |-> dst._value, _type |-> src._type]

\* value::operator=(value const& v)
assign(dst, src) == [_value |-> src._value, _type |-> src._type]

\* *_value: the wrapper a value's pointer leads to
wrapper(hp, v) == IF v._value.k = "ref" THEN hp[v._value.addr] ELSE v._value.w

\* value::type()
type(v) == v._type

\* value::is_T(): value_t answers false, the wrapper of T answers true
is_array(hp, v) == IF wrapper(hp, v).w = "array_wrapper" THEN TRUE ELSE FALSE
is_bool(hp, v) == IF wrapper(hp, v).w = "bool_wrapper" THEN TRUE ELSE FALSE
is_null(hp, v) == IF wrapper(hp, v).w = "null_wrapper" THEN TRUE ELSE FALSE
is_number(hp, v) == IF wrapper(hp, v).w = "number_wrapper" THEN TRUE ELSE FALSE
is_object(hp, v) == IF wrapper(hp, v).w = "object_wrapper" THEN TRUE ELSE FALSE
is_string(hp, v) == IF wrapper(hp, v).w = "string_wrapper" THEN TRUE ELSE FALSE

\* value::get_T(): value_t throws, the wrapper of T returns its payload
invalid_cast == [st |-> "throw", what |-> "invalid cast"]
Got(x) == [st |-> "ok", val |-> x]

get_array(hp, v) ==
  IF wrapper(hp, v).w = "array_wrapper" THEN Got(wrapper(hp, v)._value)
  ELSE invalid_cast
get_bool(hp, v) ==
  IF wrapper(hp, v).w = "bool_wrapper" THEN Got(wrapper(hp, v)._value)
  ELSE invalid_cast
get_number(hp, v) ==
  IF wrapper(hp, v).w = "number_wrapper" THEN Got(wrapper(hp, v)._value)
  ELSE invalid_cast
get_object(hp, v) ==
  IF wrapper(hp, v).w = "object_wrapper" THEN Got(wrapper(hp, v)._value)
  ELSE invalid_cast
get_string(hp, v) ==
  IF wrapper(hp, v).w = "string_wrapper" THEN Got(wrapper(hp, v)._value)
  ELSE invalid_cast

\* the cell c holds a shared_ptr to cell n
Points(c, n) ==
  CASE c.w = "array_wrapper" ->
         \E i \in 1..Len(c._value) : c._value[i]._value = Ref(n)
    [] c.w = "object_wrapper" ->
         \E k \in DOMAIN c._value : c._value[k]._value = Ref(n)
    [] OTHER -> FALSE

\* the cells some shared_ptr refers to, from a variable or from a cell
Referenced(hp, hs) ==
  { n \in Addr : \/ \E h \in Handle : hs[h]._value = Ref(n)
                 \/ \E m \in Addr : Points(hp[m], n) }

\* ~shared_ptr: cells without an owner are deleted, and so are the cells
\* only they owned
RECURSIVE Release(_, _)
Release(hp, hs) ==
  Only({IF dead = {} THEN hp
        ELSE Release([n \in Addr |-> IF n \in dead THEN Free ELSE hp[n]], hs)
          : dead \in {{n \in Addr : hp[n].w # "free" /\ n \notin Referenced(hp, hs)}}})

FreeAddr(hp) == {n \in Addr : hp[n].w = "free"}

\* the storage of v is cell n or owns it through elements
RECURSIVE Reaches(_, _, _)
Reaches(hp, v, n) ==
  /\ v._value.k = "ref"
  /\ \/ v._value.addr = n
     \/ \E m \in Addr : /\ Points(hp[v._value.addr], m)
                        /\ Reaches(hp, [_value |-> Ref(m), _type |-> JSON_NULL], n)

\* new W(...): the wrapper w in a fresh cell and the value of tag that
\* owns it
New(hp, w, tag) ==
  Only({[hp |-> [hp EXCEPT ![n] = w], v |-> [_value |-> Ref(n), _type |-> tag]]
          : n \in {CHOOSE n \in FreeAddr(hp) : \A m \in FreeAddr(hp) : n <= m}})

\* the wrappers a parsed value is made of that need a cell
RECURSIVE Cells(_), CellsOf(_, _)
Cells(x) ==
  CASE x.t \in {"null", "bool"} -> 0
    [] x.t \in {"number", "string"} -> 1
    [] x.t = "array" -> 1 + CellsOf(x.v, 1)
    [] x.t = "object" ->
         1 + CellsOf([i \in 1..Cardinality(DOMAIN x.v) |->
                        x.v[SortedKeys(DOMAIN x.v)[i]]], 1)
CellsOf(xs, i) == IF i > Len(xs) THEN 0 ELSE Cells(xs[i]) + CellsOf(xs, i + 1)

\* the value detail::parse returns for the parsed x: the constructor of
\* x's variant, applied to elements built the same way
RECURSIVE Store(_, _), StoreAll(_, _, _)
Store(hp, x) ==
  CASE x.t = "null" -> [hp |-> hp, v |-> ParsedNull(impl)]
    [] x.t = "bool" -> [hp |-> hp, v |-> value_bool(x.v)]
    [] x.t = "number" -> New(hp, number_wrapper(x.v), JSON_NUMBER)
    [] x.t = "string" -> New(hp, string_wrapper(x.v), JSON_STRING)
    [] x.t = "array" ->
         Only({New(r.hp, array_wrapper(r.vs), JSON_ARRAY)
                 : r \in {StoreAll(hp, x.v, <<>>)}})
    [] x.t = "object" ->
         Only({New(r.hp,
                   object_wrapper([k \in DOMAIN x.v |->
                     r.vs[CHOOSE i \in 1..Len(r.ks) : r.ks[i] = k]]),
                   JSON_OBJECT)
                 : r \in {[ks |-> SortedKeys(DOMAIN x.v)] @@
                          StoreAll(hp, [i \in 1..Cardinality(DOMAIN x.v) |->
                                          x.v[SortedKeys(DOMAIN x.v)[i]]], <<>>)}})
StoreAll(hp, xs, vs) ==
  IF xs = <<>> THEN [hp |-> hp, vs |-> vs]
  ELSE Only({StoreAll(r.hp, Tail(xs), Append(vs, value_copy(r.v)))
               : r \in {Store(hp, Head(xs))}})

\* the handles that came to share storage by copying: "copy" since the
\* copy, "mut" once one of the two went through a mutable accessor
Pairs == {p \in SUBSET Handle : Cardinality(p) = 2}

Rebound(al, h) == [p \in Pairs |-> IF h \in p THEN "no" ELSE al[p]]

Copied(al, h, g) ==
  IF h = g THEN al
  ELSE [p \in Pairs |->
          IF p = {h, g} THEN "copy"
          ELSE IF h \in p
            THEN IF al[(p \ {h}) \cup {g}] # "no" THEN "copy" ELSE "no"
          ELSE al[p]]

Mutated(al, h) ==
  [p \in Pairs |-> IF h \in p /\ al[p] # "no" THEN "mut" ELSE al[p]]

\* what the payloads of client programs are drawn from: an element put
\* into a container is a variable or the literal true
Operands == Handle \cup {"true"}
operand(hs, x) == IF x \in Handle THEN hs[x] ELSE value_bool(TRUE)
Nums == {1, 2}
Strs == {<<>>, <<"x">>}
ObjKeys == {<<"k">>}
ParseTexts ==
  { <<"n", "u", "l", "l">>, <<"t", "r", "u", "e">>, <<"2">>, <<Q, "x", Q>>,
    <<"[", "]">>, <<"{", "}">>, <<"[", "1", "]">>,
    <<"{", Q, "k", Q, ":", "1", "}">>, <<"[", "1">>, <<"t", "r", "u">> }

\* parse(t) for the texts of ParseTexts
Parsed == [t \in ParseTexts |-> parse(t)]

NoRes == [st |-> "none"]

\* the parser's variables while the value variables are at work
IdleParse ==
  /\ text = <<>>
  /\ phase = "idle"
  /\ strRes = NoRes
  /\ stmRes = NoRes
  /\ out = <<>>
  /\ reRes = NoRes

\* the client program has no container variable
NoHost == [k |-> "none", v |-> <<>>, into |-> "none", edited |-> FALSE]

\* value a, b;
InitValues ==
  /\ host = NoHost
  /\ handles \in [Handle -> DefaultValues(impl)]
  /\ heap = [n \in Addr |-> Free]
  /\ what = ""
  /\ alias = [p \in Pairs |-> "no"]

Init == IdleParse /\ impl = "json.hpp" /\ InitValues

\* the variable h ends and a new h begins, constructed as v in hp
Rebind(h, v, hp) ==
  /\ handles' = [handles EXCEPT ![h] = v]
  /\ heap' = Release(hp, [handles EXCEPT ![h] = v])
  /\ what' = ""
  /\ alias' = Rebound(alias, h)
  /\ UNCHANGED <<pvars, impl, host>>

\* the call threw: nothing but the exception
Throw(msg) ==
  /\ what' = msg
  /\ UNCHANGED <<handles, heap, alias, pvars, impl, host>>

\* a mutable accessor of h handed out a reference and cell n was written
Write(h, hp) ==
  /\ heap' = Release(hp, handles)
  /\ what' = ""
  /\ alias' = Mutated(alias, h)
  /\ UNCHANGED <<handles, pvars, impl, host>>

\* value h;
ConstructNull(h) == \E v \in DefaultValues(impl) : Rebind(h, v, heap)

\* value h(x); for a bool x
ConstructBool(h, x) == Rebind(h, value_bool(x), heap)

\* value h(n); for an int n
ConstructNumber(h, n) ==
  /\ FreeAddr(heap) # {}
  /\ LET r == New(heap, number_wrapper(NumOfInt(n)), JSON_NUMBER)
     IN Rebind(h, r.v, r.hp)

\* value h(s); for a string s
ConstructString(h, s) ==
  /\ FreeAddr(heap) # {}
  /\ LET r == New(heap, string_wrapper(s), JSON_STRING)
     IN Rebind(h, r.v, r.hp)

\* value h(x); for the array x = { gs[1], ... } of copies
ConstructArray(h, gs) ==
  /\ FreeAddr(heap) # {}
  /\ LET x == [i \in 1..Len(gs) |-> value_copy(operand(handles, gs[i]))]
         r == New(heap, array_wrapper(x), JSON_ARRAY)
     IN Rebind(h, r.v, r.hp)

\* value h(x); for the object x = { { k, m[k] }, ... } of copies
ConstructObject(h, m) ==
  /\ FreeAddr(heap) # {}
  /\ LET x == [k \in DOMAIN m |-> value_copy(operand(handles, m[k]))]
         r == New(heap, object_wrapper(x), JSON_OBJECT)
     IN Rebind(h, r.v, r.hp)

\* h = g;
Assign(h, g) ==
  /\ handles' = [handles EXCEPT ![h] = assign(handles[h], handles[g])]
  /\ heap' = Release(heap, [handles EXCEPT ![h] = assign(handles[h], handles[g])])
  /\ what' = ""
  /\ alias' = Copied(alias, h, g)
  /\ UNCHANGED <<pvars, impl, host>>

\* value h = parse(t);
ParseInto(h, t) ==
  LET p == Parsed[t]
  IN IF p.st = "ok"
       THEN /\ Cells(p.val) <= Cardinality(FreeAddr(heap))
            /\ LET r == Store(heap, p.val) IN Rebind(h, r.v, r.hp)
       ELSE /\ p.st = "err"
            /\ Throw(p.msg)

\* h.get_number() = n;
SetNumber(h, n) ==
  IF get_number(heap, handles[h]).st = "ok"
    THEN Write(h, [heap EXCEPT ![handles[h]._value.addr]._value = NumOfInt(n)])
    ELSE Throw(get_number(heap, handles[h]).what)

\* h.get_string() = s;
SetString(h, s) ==
  IF get_string(heap, handles[h]).st = "ok"
    THEN Write(h, [heap EXCEPT ![handles[h]._value.addr]._value = s])
    ELSE Throw(get_string(heap, handles[h]).what)

\* h.get_array().push_back(x); a container is not put into itself
PushBack(h, x) ==
  IF get_array(heap, handles[h]).st = "ok"
    THEN /\ Len(get_array(heap, handles[h]).val) < MaxArr
         /\ ~Reaches(heap, operand(handles, x), handles[h]._value.addr)
         /\ Write(h, [heap EXCEPT ![handles[h]._value.addr]._value =
                        Append(@, value_copy(operand(handles, x)))])
    ELSE Throw(get_array(heap, handles[h]).what)

\* h.get_array().pop_back(); on an array that has elements
PopBack(h) ==
  IF get_array(heap, handles[h]).st = "ok"
    THEN /\ Len(get_array(heap, handles[h]).val) > 0
         /\ Write(h, [heap EXCEPT ![handles[h]._value.addr]._value =
                        SubSeq(@, 1, Len(@) - 1)])
    ELSE Throw(get_array(heap, handles[h]).what)

\* h.get_object()[k] = x; a container is not put into itself
Insert(h, k, x) ==
  IF get_object(heap, handles[h]).st = "ok"
    THEN /\ ~Reaches(heap, operand(handles, x), handles[h]._value.addr)
         /\ Write(h, [heap EXCEPT ![handles[h]._value.addr]._value =
                        (k :> assign(IF k \in DOMAIN @ THEN @[k] ELSE value_null,
                                     operand(handles, x))) @@ @])
    ELSE Throw(get_object(heap, handles[h]).what)

\* h.get_object().erase(k);
Erase(h, k) ==
  IF get_object(heap, handles[h]).st = "ok"
    THEN /\ k \in DOMAIN get_object(heap, handles[h]).val
         /\ Write(h, [heap EXCEPT ![handles[h]._value.addr]._value =
                        [j \in DOMAIN @ \ {k} |-> @[j]]])
    ELSE Throw(get_object(heap, handles[h]).what)

\* the arrays and objects of copies a client can build
HostArrays == UNION {[1..n -> Operands] : n \in 0..MaxArr}
HostObjects == UNION {[K -> Operands] : K \in SUBSET ObjKeys}

Next ==
  \/ \E h \in Handle : ConstructNull(h)
  \/ \E h \in Handle, x \in BOOLEAN : ConstructBool(h, x)
  \/ \E h \in Handle, n \in Nums : ConstructNumber(h, n)
  \/ \E h \in Handle, s \in Strs : ConstructString(h, s)
  \/ \E h \in Handle, gs \in HostArrays : ConstructArray(h, gs)
  \/ \E h \in Handle, m \in HostObjects : ConstructObject(h, m)
  \/ \E h \in Handle, g \in Handle : Assign(h, g)
  \/ \E h \in Handle, t \in ParseTexts : ParseInto(h, t)
  \/ \E h \in Handle, n \in Nums : SetNumber(h, n)
  \/ \E h \in Handle, s \in Strs : SetString(h, s)
  \/ \E h \in Handle, x \in Operands : PushBack(h, x)
  \/ \E h \in Handle : PopBack(h)
  \/ \E h \in Handle, k \in ObjKeys, x \in Operands : Insert(h, k, x)
  \/ \E h \in Handle, k \in ObjKeys : Erase(h, k)

Spec == Init /\ [][Next]_vars


(***************************************************************************)
(* SpecAssign: the client program of Spec, which also assigns temporaries. *)
(***************************************************************************)
\* an assignment that goes through to every variable on h's storage
assigned_Through(hs, h, v) ==
  [o \in Handle |-> IF hs[o]._value = hs[h]._value THEN assign(hs[o], v)
                    ELSE hs[o]]

\* the variables after h = v: operator= runs on h alone
assigned(hs, h, v) == [hs EXCEPT ![h] = assign(hs[h], v)]

\* h = value(x); for a bool x
AssignValue(h, x) ==
  /\ handles' = assigned(handles, h, value_bool(x))
  /\ heap' = Release(heap, assigned(handles, h, value_bool(x)))
  /\ what' = ""
  /\ alias' = Rebound(alias, h)
  /\ UNCHANGED <<pvars, impl, host>>

NextAssign ==
  \/ Next
  \/ \E h \in Handle, x \in BOOLEAN : AssignValue(h, x)

SpecAssign == Init /\ [][NextAssign]_vars


(***************************************************************************)
(* SpecHost: the client program has a container variable src (an array,    *)
(* an object or a string), builds values from it and goes on changing      *)
(* both.  host.k is the type of src and host.v its content; host.into is   *)
(* the value variable last built from src and host.edited whether src was  *)
(* changed since.                                                          *)
(***************************************************************************)
\* the elements a client puts into its container: value(true), value()
HostElems == {value_bool(TRUE), value_null}
HostChars == {"x", "y"}

\* array src{...}; object src{...}; string src(...);
Declared(k, v) == [k |-> k, v |-> v, into |-> "none", edited |-> FALSE]

\* a wrapper whose _value is the address of the constructor's argument
host_wrapper_Borrowing(x) ==
  [w |-> x.k \o "_wrapper", _value |-> x.v, at |-> "src"]

\* array_wrapper(array const& v), object_wrapper(object const& v),
\* string_wrapper(string const& v): _value(new T(v))
host_wrapper(x) ==
  CASE x.k = "array" -> array_wrapper(x.v)
    [] x.k = "object" -> object_wrapper(x.v)
    [] x.k = "string" -> string_wrapper(x.v)

\* the _type the constructor of x's type writes
host_type(x) ==
  CASE x.k = "array" -> JSON_ARRAY
    [] x.k = "object" -> JSON_OBJECT
    [] x.k = "string" -> JSON_STRING

\* *_value of the wrapper c, with src as hst: what the wrapper's pointer
\* leads to
pointee(c, hst) == IF "at" \in DOMAIN c THEN hst.v ELSE c._value

\* what v reports through get_array(), get_object(), get_string() and
\* json(): its tag and the payload of its wrapper
report(hp, v, hst) ==
  [type |-> v._type,
   payload |-> IF v._value.k = "ref" THEN pointee(hp[v._value.addr], hst)
               ELSE v._value]

\* a statement on src alone
HostStep(hst) ==
  /\ host' = hst
  /\ what' = ""
  /\ UNCHANGED <<handles, heap, alias, pvars, impl>>

Touched(v) == [host EXCEPT !.v = v, !.edited = (host.into # "none")]

DeclareArray(xs) == HostStep(Declared("array", xs))
DeclareObject(m) == HostStep(Declared("object", m))
DeclareString(str) == HostStep(Declared("string", str))

\* value h(src);
FromHost(h) ==
  /\ host.k # "none"
  /\ FreeAddr(heap) # {}
  /\ LET r == New(heap, host_wrapper(host), host_type(host))
     IN /\ handles' = [handles EXCEPT ![h] = r.v]
        /\ heap' = Release(r.hp, [handles EXCEPT ![h] = r.v])
  /\ what' = ""
  /\ alias' = Rebound(alias, h)
  /\ host' = [host EXCEPT !.into = h, !.edited = FALSE]
  /\ UNCHANGED <<pvars, impl>>

\* src.push_back(x);
HostPushBack(x) ==
  /\ host.k = "array"
  /\ Len(host.v) < MaxArr
  /\ HostStep(Touched(Append(host.v, value_copy(x))))

\* src.pop_back(); on an array that has elements
HostPopBack ==
  /\ host.k = "array"
  /\ Len(host.v) > 0
  /\ HostStep(Touched(SubSeq(host.v, 1, Len(host.v) - 1)))

\* src[i] = x; on an array
HostReplace(i, x) ==
  /\ host.k = "array"
  /\ i \in 1..Len(host.v)
  /\ HostStep(Touched([host.v EXCEPT ![i] = assign(@, x)]))

\* src[k] = x; on an object
HostInsert(k, x) ==
  /\ host.k = "object"
  /\ HostStep(Touched((k :> assign(IF k \in DOMAIN host.v THEN host.v[k]
                                    ELSE value_null, x)) @@ host.v))

\* src.erase(k);
HostErase(k) ==
  /\ host.k = "object"
  /\ k \in DOMAIN host.v
  /\ HostStep(Touched([j \in DOMAIN host.v \ {k} |-> host.v[j]]))

\* src += c; on a string
HostAppend(c) ==
  /\ host.k = "string"
  /\ Len(host.v) < MaxArr
  /\ HostStep(Touched(Append(host.v, c)))

InitHost == IdleParse /\ impl = "json.hpp" /\ InitValues

NextHost ==
  \/ \E xs \in UNION {[1..n -> HostElems] : n \in 0..MaxArr} : DeclareArray(xs)
  \/ \E m \in UNION {[K -> HostElems] : K \in SUBSET ObjKeys} : DeclareObject(m)
  \/ \E str \in UNION {[1..n -> HostChars] : n \in 0..MaxArr} : DeclareString(str)
  \/ \E h \in Handle : FromHost(h)
  \/ \E x \in HostElems : HostPushBack(x)
  \/ HostPopBack
  \/ \E i \in 1..MaxArr, x \in HostElems : HostReplace(i, x)
  \/ \E k \in ObjKeys, x \in HostElems : HostInsert(k, x)
  \/ \E k \in ObjKeys : HostErase(k)
  \/ \E c \in HostChars : HostAppend(c)
  \/ \E h \in Handle : ConstructNull(h)
  \/ \E h \in Handle, str \in Strs : SetString(h, str)
  \/ \E h \in Handle, x \in Operands : PushBack(h, x)
  \/ \E h \in Handle : PopBack(h)
  \/ \E h \in Handle, k \in ObjKeys, x \in Operands : Insert(h, k, x)
  \/ \E h \in Handle, k \in ObjKeys : Erase(h, k)

SpecHost == InitHost /\ [][NextHost]_vars


(***************************************************************************)
(* SpecImpl: construction, copy, parse and json() under each of the        *)
(* implementations.                                                        *)
(***************************************************************************)
\* _value->json() would go through a pointer that owns nothing, in v or in
\* an element of v
RECURSIVE Dangles(_, _)
Dangles(hp, v) ==
  \/ v._value.k = "empty"
  \/ /\ v._value.k = "ref"
     /\ CASE hp[v._value.addr].w = "array_wrapper" ->
               \E i \in 1..Len(hp[v._value.addr]._value) :
                 Dangles(hp, hp[v._value.addr]._value[i])
          [] hp[v._value.addr].w = "object_wrapper" ->
               \E k \in DOMAIN hp[v._value.addr]._value :
                 Dangles(hp, hp[v._value.addr]._value[k])
          [] OTHER -> FALSE

\* the payload of v with the payloads of its elements in place of them
RECURSIVE tree(_, _)
tree(hp, v) ==
  CASE wrapper(hp, v).w = "null_wrapper" -> Null
    [] wrapper(hp, v).w = "bool_wrapper" -> Bool(wrapper(hp, v)._value)
    [] wrapper(hp, v).w = "number_wrapper" -> Number(wrapper(hp, v)._value)
    [] wrapper(hp, v).w = "string_wrapper" -> String(wrapper(hp, v)._value)
    [] wrapper(hp, v).w = "array_wrapper" ->
         Array([i \in 1..Len(wrapper(hp, v)._value) |->
                  tree(hp, wrapper(hp, v)._value[i])])
    [] wrapper(hp, v).w = "object_wrapper" ->
         Object([k \in DOMAIN wrapper(hp, v)._value |->
                   tree(hp, wrapper(hp, v)._value[k])])

\* what a call through a null pointer can do
NullDeref == {"crash", "undefined"}

\* value::json(): _value->json()
render(hp, v) ==
  IF Dangles(hp, v) THEN [st |-> "ub", text |-> <<>>]
  ELSE [st |-> "ok", text |-> json(tree(hp, v))]

\* h.json();
Json(h) ==
  /\ IF render(heap, handles[h]).st = "ok" THEN what' = "" ELSE what' \in NullDeref
  /\ UNCHANGED <<handles, heap, alias, pvars, impl, host>>

InitImpl == IdleParse /\ impl \in Impl /\ InitValues

NextImpl ==
  \/ \E h \in Handle : ConstructNull(h)
  \/ \E h \in Handle, x \in BOOLEAN : ConstructBool(h, x)
  \/ \E h \in Handle, n \in Nums : ConstructNumber(h, n)
  \/ \E h \in Handle, s \in Strs : ConstructString(h, s)
  \/ \E h \in Handle, gs \in HostArrays : ConstructArray(h, gs)
  \/ \E h \in Handle, m \in HostObjects : ConstructObject(h, m)
  \/ \E h \in Handle, g \in Handle : Assign(h, g)
  \/ \E h \in Handle, t \in ParseTexts : ParseInto(h, t)
  \/ \E h \in Handle : Json(h)

SpecImpl == InitImpl /\ [][NextImpl]_vars


(***************************************************************************)
(* SpecParse: both entry points run on one input, then the value the       *)
(* string entry point returned is rendered and the rendering parsed.       *)
(***************************************************************************)
InitParse ==
  /\ text \in Texts
  /\ phase = "start"
  /\ strRes = NoRes
  /\ stmRes = NoRes
  /\ out = <<>>
  /\ reRes = NoRes
  /\ impl = "json.hpp"
  /\ InitValues

ParseText ==
  /\ phase = "start"
  /\ strRes' = parse(text)
  /\ phase' = "parsed"
  /\ UNCHANGED <<text, stmRes, out, reRes, hvars, impl, host>>

ParseStream ==
  /\ phase = "parsed"
  /\ stmRes' = parse_istream(text)
  /\ phase' = "streamed"
  /\ UNCHANGED <<text, strRes, out, reRes, hvars, impl, host>>

Render ==
  /\ phase = "streamed"
  /\ strRes.st = "ok"
  /\ out' = json(strRes.val)
  /\ phase' = "rendered"
  /\ UNCHANGED <<text, strRes, stmRes, reRes, hvars, impl, host>>

Reparse ==
  /\ phase = "rendered"
  /\ reRes' = parse(out)
  /\ phase' = "done"
  /\ UNCHANGED <<text, strRes, stmRes, out, hvars, impl, host>>

NextParse == ParseText \/ ParseStream \/ Render \/ Reparse

SpecParse == InitParse /\ [][NextParse]_vars


(***************************************************************************)
(* SpecEscape: escape and unescape run on one string, and the escaped      *)
(* string is parsed between quotes.  text is the string, out its escaped   *)
(* form, reRes unescape(out), strRes unescape(text), stmRes the parse.     *)
(***************************************************************************)
InitEscape ==
  /\ text \in Strings
  /\ phase = "start"
  /\ strRes = NoRes
  /\ stmRes = NoRes
  /\ out = <<>>
  /\ reRes = NoRes
  /\ impl = "json.hpp"
  /\ InitValues

\* out = escape(text);
EscapeText ==
  /\ phase = "start"
  /\ out' = escape(text)
  /\ phase' = "escaped"
  /\ UNCHANGED <<text, strRes, stmRes, reRes, hvars, impl, host>>

\* unescape(out);
UnescapeOut ==
  /\ phase = "escaped"
  /\ reRes' = unescape(out)
  /\ phase' = "unescaped"
  /\ UNCHANGED <<text, strRes, stmRes, out, hvars, impl, host>>

\* unescape(text);
UnescapeText ==
  /\ phase = "unescaped"
  /\ strRes' = unescape(text)
  /\ phase' = "raw"
  /\ UNCHANGED <<text, stmRes, out, reRes, hvars, impl, host>>

\* parse('"' + out + '"');
ParseQuoted ==
  /\ phase = "raw"
  /\ stmRes' = parse(<<Q>> \o out \o <<Q>>)
  /\ phase' = "quoted"
  /\ UNCHANGED <<text, strRes, out, reRes, hvars, impl, host>>

NextEscape == EscapeText \/ UnescapeOut \/ UnescapeText \/ ParseQuoted

SpecEscape == InitEscape /\ [][NextEscape]_vars


(***************************************************************************)
(* Properties of the parser, checked under SpecParse.                      *)
(***************************************************************************)
WS == {" ", "\t", "\r", "\n"}

Ran(r) == r.st # "none"

\* the largest index j <= i of t with a non-whitespace character, 0 if none
RECURSIVE LastNonWs(_, _)
LastNonWs(t, i) ==
  IF i <= 0 THEN 0 ELSE IF t[i] \notin WS THEN i ELSE LastNonWs(t, i - 1)

\* some character of A is followed, after whitespace only, by one of B
Follows(t, A, B) ==
  \E j \in 2..Len(t) :
    /\ t[j] \in B
    /\ LastNonWs(t, j - 1) >= 1
    /\ t[LastNonWs(t, j - 1)] \in A

\* the same with at least one whitespace character in between
FollowsApart(t, A, B) ==
  \E j \in 3..Len(t) :
    /\ t[j] \in B
    /\ t[j - 1] \in WS
    /\ LastNonWs(t, j - 1) >= 1
    /\ t[LastNonWs(t, j - 1)] \in A

Over(t, A) == \A i \in 1..Len(t) : t[i] \in A

\* C1: parse(text) returns a value only if every character after the last
\* character of the top-level value detail::parse read is whitespace; when
\* a non-whitespace character follows that value the call fails with
\* "garbage at end of input" and returns no value.
C1_TrailingGarbage ==
  Ran(strRes) =>
    /\ strRes.st = "ok" => strRes.vend >= 0
    /\ strRes.vend >= 0 =>
         IF \A i \in (strRes.vend + 2)..Len(text) : text[i] \in WS
         THEN strRes.st = "ok"
         ELSE strRes.st = "err" /\ strRes.msg = "garbage at end of input"

C1_Witness ==
  /\ text = <<"[", "]", " ", "x">>
  /\ strRes.st = "err"
  /\ strRes.msg = "garbage at end of input"

\* C2: an object text with a comma between its last pair and the closing
\* '}' never parses to an Object.
C2_ObjectTrailingComma ==
  LET j == LastNonWs(text, Len(text))
      k == LastNonWs(text, j - 1)
  IN (Ran(strRes) /\ j >= 2 /\ text[j] = "}" /\ k >= 1 /\ text[k] = ",")
       => ~(strRes.st = "ok" /\ strRes.val.t = "object")

\* a text over the characters of arrays of the number 1
ArrayText(t) == Over(t, {"[", "]", ",", "1"} \cup WS)

\* a comma directly before ']', a leading comma, two commas in a row, or
\* two elements with no comma between them
BadArrayShape(t) ==
  \/ Follows(t, {","}, {"]"})
  \/ Follows(t, {"["}, {","})
  \/ Follows(t, {","}, {","})
  \/ Follows(t, {"]"}, {"[", "1"})
  \/ Follows(t, {"1"}, {"["})
  \/ FollowsApart(t, {"1"}, {"1"})

\* C3: an array text with a comma before ']', a leading comma, two
\* consecutive commas or two elements without a comma makes parse fail,
\* and '[' values-separated-by-one-comma ']' parses to the Array of as many
\* elements as the text has.
C3_ArrayProduction ==
  Ran(strRes) =>
    /\ (ArrayText(text) /\ BadArrayShape(text)) => strRes.st = "err"
    /\ \A n \in 0..MaxElems :
         text \in {<<"[">> \o l \o <<"]">> :
                     l \in IF n = 0 THEN {<<>>}
                           ELSE Lists({<<"1">>}, Seps, n) \ Lists({<<"1">>}, Seps, n - 1)}
           => strRes.st = "ok" /\ strRes.val.t = "array" /\ Len(strRes.val.v) = n

C3_Witness ==
  /\ text = <<"[", "1", ",", "]">>
  /\ strRes.st = "err"

\* a text built from keys, number values and the object punctuation
ObjectText(t) ==
  /\ Over(t, {"{", "}", Q, ":", ",", "a", "b", "1", "2"} \cup WS)
  /\ Len(t) >= 2 /\ t[1] = "{" /\ t[Len(t)] = "}"

\* two pairs with no comma between them, more than one comma between
\* pairs, or a key directly followed by another key
BadObjectSequence(t) ==
  \/ Follows(t, {"1", "2"}, {Q})
  \/ Follows(t, {","}, {","})
  \/ FollowsApart(t, {Q}, {Q})

\* C4: every object text that deviates in key/colon/comma sequencing fails
\* with "bad object".
C4_ObjectSequencing ==
  (Ran(strRes) /\ ObjectText(text) /\ BadObjectSequence(text)
     /\ ~Follows(text, {","}, {"}"}))
    => strRes.st = "err" /\ strRes.msg = "bad object"

\* C5: for every well-formed text t with v = parse(t), parse(v.json())
\* succeeds and is structurally equal to v.
C5_RoundTrip ==
  (text \in WellFormed /\ phase = "done")
    => reRes.st = "ok" /\ ValEq(reRes.val, strRes.val)

\* C6: for every well-formed text the stream entry point returns a value
\* structurally equal to the one the string entry point returns.
C6_StreamEqualsString ==
  (text \in WellFormed /\ Ran(stmRes))
    => /\ strRes.st = "ok"
       /\ stmRes.st = "ok"
       /\ ValEq(stmRes.val, strRes.val)

C6_Witness ==
  /\ text = <<"[", "1", ",", "{", Q, "a", Q, ":", Q, "a", Q, ",", Q, "b", Q, ":", "1", "}", "]">>
  /\ stmRes.st = "ok"
  /\ stmRes.val.t = "array"
  /\ Len(stmRes.val.v) = 2

\* C7: on every input on which parse(text) fails, parse(character_source)
\* returns no value either; a literal cut short by the end of the stream
\* is not matched by the cursor's stale character.
C7_StreamFailsLikeString ==
  (Ran(stmRes) /\ strRes.st = "err") => stmRes.st # "ok"

\* C8: from a string or from a stream, parse ends by returning a value or
\* by throwing; it never recurses without bound.
C8_Terminates ==
  /\ Ran(strRes) => strRes.st \in {"ok", "err"}
  /\ Ran(stmRes) => stmRes.st \in {"ok", "err"}

(***************************************************************************)
(* Properties of the value variables, checked under Spec.                  *)
(***************************************************************************)
\* every value there is: the variables, the elements of the arrays and the
\* entries of the objects
HeldIn(c) ==
  CASE c.w = "array_wrapper" -> {c._value[i] : i \in 1..Len(c._value)}
    [] c.w = "object_wrapper" -> {c._value[k] : k \in DOMAIN c._value}
    [] OTHER -> {}

Values == {handles[h] : h \in Handle} \cup UNION {HeldIn(heap[n]) : n \in Addr}

\* the answers of the six is_T() of a value, by tag
Answers(v) ==
  [t \in {JSON_ARRAY, JSON_BOOL, JSON_NULL, JSON_NUMBER, JSON_OBJECT, JSON_STRING} |->
     CASE t = JSON_ARRAY -> is_array(heap, v)
       [] t = JSON_BOOL -> is_bool(heap, v)
       [] t = JSON_NULL -> is_null(heap, v)
       [] t = JSON_NUMBER -> is_number(heap, v)
       [] t = JSON_OBJECT -> is_object(heap, v)
       [] t = JSON_STRING -> is_string(heap, v)]

\* the results of the five get_T() of a value, by tag
Gets(v) ==
  [t \in {JSON_ARRAY, JSON_BOOL, JSON_NUMBER, JSON_OBJECT, JSON_STRING} |->
     CASE t = JSON_ARRAY -> get_array(heap, v)
       [] t = JSON_BOOL -> get_bool(heap, v)
       [] t = JSON_NUMBER -> get_number(heap, v)
       [] t = JSON_OBJECT -> get_object(heap, v)
       [] t = JSON_STRING -> get_string(heap, v)]

\* C9: of every value exactly one is_T() is true, the one of the tag
\* type() returns; get_T() returns the wrapper's payload when is_T() is
\* true and throws "invalid cast" when it is false.
C9_VariantDiscipline ==
  \A v \in Values :
    /\ Cardinality({t \in DOMAIN Answers(v) : Answers(v)[t]}) = 1
    /\ Answers(v)[type(v)]
    /\ \A t \in DOMAIN Gets(v) :
         IF Answers(v)[t]
           THEN Gets(v)[t].st = "ok" /\ Gets(v)[t].val = wrapper(heap, v)._value
           ELSE Gets(v)[t] = [st |-> "throw", what |-> "invalid cast"]

\* a number that was assigned from another variable refused get_string()
C9_Witness ==
  /\ alias[{"a", "b"}] = "copy"
  /\ type(handles["a"]) = JSON_NUMBER
  /\ get_number(heap, handles["a"]) = [st |-> "ok", val |-> NumOfInt(2)]
  /\ get_string(heap, handles["a"]).st = "throw"
  /\ what = "invalid cast"

\* what the mutable accessors of a value give access to
Seen(v) ==
  [array |-> get_array(heap, v), object |-> get_object(heap, v),
   string |-> get_string(heap, v), number |-> get_number(heap, v)]

\* C10: two variables that share storage since one was copied from the
\* other see the same payload after every sequence of writes made through
\* the mutable accessors of either.
C10_SharedStorage ==
  \A p \in Pairs : alias[p] # "no" =>
    \A h \in p, g \in p : Seen(handles[h]) = Seen(handles[g])

\* an element pushed through a is seen through its copy b
C10_Witness ==
  /\ alias[{"a", "b"}] = "mut"
  /\ get_array(heap, handles["b"]).st = "ok"
  /\ Len(get_array(heap, handles["b"]).val) = 1
  /\ Seen(handles["a"]) = Seen(handles["b"])

\* C11: json() never fails: no call of it goes through a pointer that owns
\* nothing, and in each implementation every variable, the default
\* constructed ones included, holds a wrapper.
C11_RenderNeverFails ==
  /\ what \notin NullDeref
  /\ \A h \in Handle : render(heap, handles[h]).st = "ok"


\* what a reader of t is inside of after its i-1 first characters: depth
\* brackets and braces, and instr a string (esc: after an escaping
\* backslash); the state after the last character of t
RECURSIVE Scan(_, _, _, _, _)
Scan(t, i, depth, instr, esc) ==
  IF i > Len(t) THEN [depth |-> depth, instr |-> instr]
  ELSE IF instr
    THEN IF esc THEN Scan(t, i + 1, depth, TRUE, FALSE)
         ELSE IF t[i] = BS THEN Scan(t, i + 1, depth, TRUE, TRUE)
         ELSE Scan(t, i + 1, depth, t[i] # Q, FALSE)
  ELSE IF t[i] = Q THEN Scan(t, i + 1, depth, TRUE, FALSE)
  ELSE IF t[i] \in {"[", "{"} THEN Scan(t, i + 1, depth + 1, FALSE, FALSE)
  ELSE IF t[i] \in {"]", "}"} THEN Scan(t, i + 1, Max(depth - 1, 0), FALSE, FALSE)
  ELSE Scan(t, i + 1, depth, FALSE, FALSE)

\* t ends inside an array, an object or a string
Unclosed(t) ==
  Scan(t, 1, 0, FALSE, FALSE).depth > 0 \/ Scan(t, 1, 0, FALSE, FALSE).instr

\* t is one string literal without its end
OpenString(t) ==
  /\ t # <<>>
  /\ t[1] = Q
  /\ Scan(t, 1, 0, FALSE, FALSE).instr
  /\ \A n \in 2..Len(t) - 1 : Scan(SubSeq(t, 1, n), 1, 0, FALSE, FALSE).instr

\* C13: parse(text) throws on the empty text, on a text of whitespace and
\* on every text that ends inside an array, an object or a string;
\* parse("{") throws "bad object" and a string literal without its closing
\* quote throws "bad string".
C13_IncompleteFails ==
  Ran(strRes) =>
    /\ (Over(text, WS) \/ Unclosed(text)) => strRes.st = "err"
    /\ text = <<"{">> => strRes.msg = "bad object"
    /\ OpenString(text) => strRes.msg = "bad string"

C13_Witness ==
  /\ text = <<"[", "1", ",", "1">>
  /\ Unclosed(text)
  /\ strRes.st = "err"
  /\ strRes.msg = "bad array"


\* open, whitespace only, close
Hollow(t, open, close) ==
  /\ Len(t) >= 2
  /\ t[1] = open
  /\ t[Len(t)] = close
  /\ \A i \in 2..Len(t) - 1 : t[i] \in WS

\* C14: "[" and "]" with nothing or whitespace between them parse to an
\* Array of no elements that renders as "[]", "{" and "}" to an Object of no
\* entries that renders as "{}".
C14_EmptyContainers ==
  /\ (Hollow(text, "[", "]") /\ Ran(strRes)) =>
        /\ strRes.st = "ok"
        /\ strRes.val.t = "array"
        /\ Len(strRes.val.v) = 0
        /\ phase \in {"rendered", "done"} => out = <<"[", "]">>
  /\ (Hollow(text, "{", "}") /\ Ran(strRes)) =>
        /\ strRes.st = "ok"
        /\ strRes.val.t = "object"
        /\ DOMAIN strRes.val.v = {}
        /\ phase \in {"rendered", "done"} => out = <<"{", "}">>

C14_Witness ==
  /\ text = <<"[", " ", " ", "]">>
  /\ phase = "rendered"
  /\ strRes.val = Array(<<>>)
  /\ out = <<"[", "]">>


\* t without its whitespace outside of strings, from character i on; apart
\* is FALSE when whitespace stood between two characters of one literal
\* or number.  word: the last character kept belongs to a literal or a
\* number; gap: whitespace was dropped since.
RECURSIVE Squeeze(_, _, _, _, _, _, _)
Squeeze(t, i, instr, esc, word, gap, acc) ==
  IF i > Len(t) THEN [txt |-> acc.txt, apart |-> acc.apart]
  ELSE IF instr
    THEN Squeeze(t, i + 1, esc \/ t[i] # Q, ~esc /\ t[i] = BS, FALSE, FALSE,
                 [acc EXCEPT !.txt = Append(@, t[i])])
  ELSE IF t[i] \in WS THEN Squeeze(t, i + 1, FALSE, FALSE, word, TRUE, acc)
  ELSE IF t[i] \in {Q, "[", "]", "{", "}", ",", ":"}
    THEN Squeeze(t, i + 1, t[i] = Q, FALSE, FALSE, FALSE,
                 [acc EXCEPT !.txt = Append(@, t[i])])
  ELSE Squeeze(t, i + 1, FALSE, FALSE, TRUE, FALSE,
               [txt |-> Append(acc.txt, t[i]),
                apart |-> acc.apart /\ ~(word /\ gap)])

Squeezed(t) == Squeeze(t, 1, FALSE, FALSE, FALSE, FALSE, [txt |-> <<>>, apart |-> TRUE])

\* C15: a text made from an accepted text by putting whitespace before
\* its first token, after its last or between two tokens is accepted with
\* a structurally equal value.
C15_WhitespaceSkipped ==
  (/\ Ran(strRes)
   /\ Squeezed(text).txt # text
   /\ Squeezed(text).apart
   /\ parse(Squeezed(text).txt).st = "ok")
    => /\ strRes.st = "ok"
       /\ ValEq(strRes.val, parse(Squeezed(text).txt).val)

C15_Witness ==
  /\ text = <<"{", Q, "a", Q, "\r", ":", "[", "1", ",", "t", "r", "u", "e", "]", "}">>
  /\ Squeezed(text).txt = SubSeq(text, 1, 4) \o SubSeq(text, 6, 15)
  /\ strRes.st = "ok"
  /\ strRes.val = parse(Squeezed(text).txt).val


\* the key of the object o with i - 1 keys of o below it
KeyAt(o, i) ==
  CHOOSE k \in DOMAIN o : Cardinality({j \in DOMAIN o : StrLess(j, k)}) = i - 1

\* what the claim says stands in the output for the i-th key of n
EntryText(o, i, n) ==
  <<Q>> \o escape(KeyAt(o, i)) \o <<Q, ":", " ">> \o json(o[KeyAt(o, i)])
    \o (IF i < n THEN <<",", " ">> ELSE <<>>)

RECURSIVE EntriesText(_, _, _)
EntriesText(o, i, n) ==
  IF i > n THEN <<>> ELSE EntryText(o, i, n) \o EntriesText(o, i + 1, n)

\* C16: an object is rendered as '{', its entries "<escaped key>": <value>
\* in ascending key order whatever the order of the keys in the text,
\* ", " between two entries and nothing after the last, then '}'.
C16_ObjectRendering ==
  (phase \in {"rendered", "done"} /\ strRes.st = "ok" /\ strRes.val.t = "object")
    => out = <<"{">> \o EntriesText(strRes.val.v, 1, Cardinality(DOMAIN strRes.val.v))
               \o <<"}">>

C16_Witness ==
  /\ text = <<"{", Q, "b", Q, ":", "1", ",", Q, "a", Q, ":", Q, "a", Q, "}">>
  /\ phase = "rendered"
  /\ out = <<"{", Q, "a", Q, ":", " ", Q, "a", Q, ",", " ",
              Q, "b", Q, ":", " ", "1", "}">>


\* C17: a value built from a container holds a copy of it: a statement
\* that inserts into, removes from or replaces in the source leaves what
\* every value reports as it was, and a statement that changes a value's
\* container leaves the source as it was.
C17_HostCopied ==
  [][/\ (host' # host /\ handles' = handles)
          => \A h \in Handle :
               report(heap', handles'[h], host') = report(heap, handles[h], host)
     /\ (heap' # heap /\ handles' = handles) => host' = host]_vars

C17_Witness ==
  /\ host.k = "array"
  /\ host.into = "a"
  /\ host.edited
  /\ host.v = <<>>
  /\ get_array(heap, handles["a"]).st = "ok"
  /\ report(heap, handles["a"], host).payload = <<value_bool(TRUE)>>


\* the number of backslashes of t that stand in a row right before
\* position i, the opening quote at position 1 left out
BsRun(t, i) ==
  CHOOSE n \in 0..(i - 2) :
    /\ \A j \in (i - n)..(i - 1) : t[j] = BS
    /\ (n = i - 2 \/ t[i - n - 1] # BS)

\* the character at i is not under an active escape
Unescaped(t, i) == BsRun(t, i) % 2 = 0

\* the first '"' of t after the opening one that is not escaped, 0 if none
Closing(t) ==
  IF \E i \in 2..Len(t) : t[i] = Q /\ Unescaped(t, i)
    THEN CHOOSE i \in 2..Len(t) :
           /\ t[i] = Q /\ Unescaped(t, i)
           /\ \A j \in 2..(i - 1) : ~(t[j] = Q /\ Unescaped(t, j))
    ELSE 0

\* the characters of t from i to e - 1 without the escaping backslashes
RECURSIVE Unslashed(_, _, _)
Unslashed(t, i, e) ==
  IF i >= e THEN <<>>
  ELSE (IF t[i] = BS /\ Unescaped(t, i) THEN <<>> ELSE <<t[i]>>)
         \o Unslashed(t, i + 1, e)

\* C18: the string production ends at the first '"' that is not escaped
\* and yields the content without the escaping backslashes, the character
\* after each kept as it is; the text '"' + escape(str) + '"' parses to str.
C18_StringProduction ==
  (Ran(strRes) /\ Len(text) > 0 /\ text[1] = Q)
    => /\ IF Closing(text) = 0
            THEN strRes.st = "err" /\ strRes.msg = "bad string"
          ELSE IF \A j \in (Closing(text) + 1)..Len(text) : text[j] \in WS
            THEN /\ strRes.st = "ok"
                 /\ strRes.val = String(Unslashed(text, 2, Closing(text)))
          ELSE strRes.st = "err" /\ strRes.msg = "garbage at end of input"
       /\ \A str \in Strings :
            text = QuotedOf[str] => strRes.st = "ok" /\ strRes.val = String(str)

C18_Witness ==
  /\ text = <<Q, "n", BS, BS, BS, Q, Q>>
  /\ text = QuotedOf[<<"n", BS, Q>>]
  /\ Closing(text) = 7
  /\ strRes.st = "ok"
  /\ strRes.val = String(<<"n", BS, Q>>)


\* t holds a character detail::parse hands to the number production
HasNumberStart(t) == \E i \in 1..Len(t) : t[i] \in Digits \cup {"-"}

\* the cursor r.it of a finished parse looked no further than one
\* character ahead, and that far in a number only
LookedOneAhead(r, t) ==
  Ran(r) => /\ r.it.ahead \in {0, 1}
            /\ r.it.ahead = 1 => HasNumberStart(t)
            /\ r.it.hi <= r.it.pos + 1
            /\ r.it.pos >= 0

\* C19: a parse reads the character under the cursor and, in the number
\* production, the one after it; the cursor moves forward and nothing
\* further than one character past it is looked at.
C19_OneCharacterAhead ==
  LookedOneAhead(strRes, text) /\ LookedOneAhead(stmRes, text)

C19_Witness ==
  /\ text = <<"[", "1", ",", "1", "]">>
  /\ strRes.st = "ok"
  /\ strRes.it.ahead = 1
  /\ strRes.it.hi = 4
  /\ stmRes.st = "ok"
  /\ stmRes.it.ahead = 1


\* what a step that runs h = c must leave: h with the storage and tag of
\* c, every other variable with the storage, tag and content it had
Rebinds(h, c) ==
  /\ handles'[h]._value = c._value
  /\ handles'[h]._type = c._type
  /\ \A o \in Handle \ {h} :
       /\ handles'[o]._value = handles[o]._value
       /\ handles'[o]._type = handles[o]._type
       /\ wrapper(heap', handles'[o]) = wrapper(heap, handles[o])

\* C20: a = c rebinds a alone: a takes the tag and storage of c, and a
\* variable that shared the storage a had keeps it, tag and content
\* unchanged.
C20_AssignRebindsOne ==
  [][/\ \A h \in Handle, x \in BOOLEAN :
          AssignValue(h, x) => Rebinds(h, value_bool(x))
     /\ \A h \in Handle, g \in Handle :
          Assign(h, g) => Rebinds(h, handles[g])]_vars

C20_Witness ==
  /\ handles["a"] = value_bool(FALSE)
  /\ alias[{"a", "b"}] = "no"
  /\ handles["b"]._type = JSON_STRING
  /\ get_string(heap, handles["b"]) = Got(<<"x">>)


\* C21: parse(text) reads no character at an index >= Len(text): the
\* highest index the cursor was dereferenced at, and looked ahead to in a
\* number, is below the length of the text.
C21_ReadsInsideText ==
  Ran(strRes) => strRes.it.hi < Len(text)


\* the character of t at the 0-based index i is the last one of the text
\* of the value v and stands before the end of t
RestsOnLast(t, i, v) ==
  /\ i >= 0
  /\ i < Len(t)
  /\ CASE v.t = "string" -> t[i + 1] = Q
       [] v.t = "array" -> t[i + 1] = "]"
       [] v.t = "object" -> t[i + 1] = "}"
       [] v.t = "null" -> t[i + 1] = "l"
       [] v.t = "bool" -> t[i + 1] = "e"
       [] v.t = "number" ->
            /\ IsNumChar(t[i + 1])
            /\ (i + 1 = Len(t) \/ ~IsNumChar(t[i + 2]))

\* detail::parse entered with a string cursor at any index of the text:
\* the cursor never passes s.end(), and a value comes with the cursor on
\* its last character
StringCursorRests ==
  phase = "parsed" =>
    \A p \in 0..(Len(text) - 1) :
      \A r \in {detail_parse([StringBegin(text) EXCEPT !.pos = p], 1)} :
        /\ r.st # "ub"
        /\ r.st = "ok" => RestsOnLast(text, r.it.pos, r.val)

\* detail::parse entered with a stream cursor: a value comes with the
\* cursor on its last character and cur != end still true
StreamCursorRests ==
  phase = "streamed" =>
    \A r \in {detail_parse(StreamBegin(text), 1)} :
      r.st = "ok" => good(r.it) /\ RestsOnLast(text, CursorIndex(r.it), r.val)

\* C23, as stated: when detail::parse or a production it calls returns a
\* value, the cursor rests on the last character of the value's text,
\* before end, so that the caller's ++cur never passes end.
C23_CursorRestsOnLast ==
  /\ strRes.st # "ub"
  /\ StringCursorRests
  /\ StreamCursorRests

\* C23, for the cursor of parse(string const&): when detail::parse or a
\* production it calls returns a value, the cursor rests on the last
\* character of the value's text, before s.end(), and no ++cur passes
\* s.end().
C23_StringCursorRests ==
  /\ strRes.st # "ub"
  /\ StringCursorRests

C23_Witness ==
  /\ text = <<"[", "1", ",", Q, "a", Q, "]">>
  /\ phase = "parsed"
  /\ strRes.st = "ok"
  /\ strRes.vend = 6
  /\ detail_parse([StringBegin(text) EXCEPT !.pos = 1], 1).it.pos = 1
  /\ detail_parse([StringBegin(text) EXCEPT !.pos = 3], 1).it.pos = 5


(***************************************************************************)
(* Properties of escape and unescape, checked under SpecEscape.            *)
(***************************************************************************)
Special(c) == c = Q \/ c = BS

\* where the i-th character of t stands in its escaped form
EscapedAt(t, i) == i + Cardinality({j \in 1..i : Special(t[j])})

\* C12: unescape(escape(s)) = s, and escape(s) is s with one backslash
\* put before each quote and each backslash and nothing else changed.
C12_EscapeRoundTrip ==
  /\ phase # "start" =>
        /\ Len(out) = EscapedAt(text, Len(text))
        /\ \A i \in 1..Len(text) :
              /\ out[EscapedAt(text, i)] = text[i]
              /\ Special(text[i]) => out[EscapedAt(text, i) - 1] = BS
  /\ Ran(reRes) => reRes.st = "ok" /\ reRes.val = text

C12_Witness ==
  /\ text = <<BS, Q, "a">>
  /\ out = <<BS, BS, BS, Q, "a">>
  /\ Ran(reRes)
  /\ reRes.val = <<BS, Q, "a">>

\* C22: unescape reads nothing after the terminator of its argument: for
\* every string, one that ends in a lone backslash too, the scan ends at
\* the terminator and what it wrote holds no character from beyond the
\* string.
C22_UnescapeStaysInside ==
  (phase \in {"raw", "quoted"})
    => /\ strRes.st = "ok"
       /\ strRes.hi <= Len(text) + 1
       /\ \A i \in 1..Len(strRes.val) : strRes.val[i] # NUL

====
